---- MODULE Spec2Model ----
(***************************************************************************)
(* DialecticSphere: the ShapeDeformer mode list, the deformed sphere mesh  *)
(* and the Renderer's draw pipeline (rotate, project, cull, light, sort,   *)
(* paint).                                                                 *)
(*                                                                         *)
(* Numbers.  A JavaScript number is modelled as a record                   *)
(*   [cls |-> "fin", v |-> n]  a finite value n (an integer in the unit    *)
(*                             the quantity is kept in, see below),        *)
(*   [cls |-> "nan"], [cls |-> "pinf"], [cls |-> "ninf"]  NaN, +Inf, -Inf. *)
(* Units: lengths and amplitudes are whole units; angles are whole quarter *)
(* turns (pi/2), where sin and cos are exactly -1, 0 or 1; unit vectors,   *)
(* the projection scale, 2D coordinates, avgZ and the light intensity are  *)
(* in thousandths.                                                         *)
(*                                                                         *)
(* Trigonometry is exact here.  In doubles Math.sin(Math.PI) is 1.2e-16    *)
(* and Math.cos(Math.PI / 2) is 6.1e-17, so a triangle that has zero area  *)
(* in this model (two vertices on the phi = pi pole row, for instance) can *)
(* have a tiny non-zero area, and a tiny normal of either sign, in the     *)
(* program; avgZ values that tie here can differ there in the last digit.  *)
(***************************************************************************)
EXTENDS Integers, Sequences, FiniteSets, TLC

\* modes        shapeDeformer.modes
\* lightDir     renderer.lightDir
\* canvas       canvas.width and canvas.height
\* painted      the triangles filled on the surface since it was last cleared,
\*              in the order of the fills
\* frame        the number of runs of animate that have completed
\* pending      the number of runs of animate that are due: the call at the end
\*              of nuChlad.js, then the callbacks requestAnimationFrame holds
\* modeSliders  the values the sliders show, slider i at position i + 1
\* nextId, lastOp, steps   bookkeeping: the identity given to the next added
\*              mode, the last operation with its arguments and result, and the
\*              number of operations so far
VARIABLES modes, nextId, lightDir, canvas, painted, lastOp, steps,
          frame, pending, modeSliders

vars == <<modes, nextId, lightDir, canvas, painted, lastOp, steps,
          frame, pending, modeSliders>>

\* ---------------------------------------------------------------- bounds
MaxSteps == 2
MaxAdded == 1

\* ------------------------------------------------------ program constants
baseRadius == 200
FP == 1000

\* ------------------------------------------------------------ JS numbers
\* The element of a one-element set.  Operators bind their arguments through
\* one-element sets, so that each argument is evaluated once.
Only(S) == CHOOSE r \in S : TRUE

Fin(n) == [cls |-> "fin", v |-> n]
NaN == [cls |-> "nan", v |-> 0]
PInf == [cls |-> "pinf", v |-> 0]
NInf == [cls |-> "ninf", v |-> 0]

\* the JS numbers.  The arithmetic below is defined as functions on Num: the
\* arguments of a function application are evaluated once.
Num == [cls : {"fin", "nan", "pinf", "ninf"}, v : Int]

IsFinite(a) == a.cls = "fin"
IsNaN(a) == a.cls = "nan"

Abs(n) == IF n < 0 THEN -n ELSE n
Sgn(n) == IF n < 0 THEN -1 ELSE IF n > 0 THEN 1 ELSE 0

\* sign of a JS number that is not NaN
SignOf(a) ==
  CASE a.cls = "fin" -> Sgn(a.v)
    [] a.cls = "pinf" -> 1
    [] a.cls = "ninf" -> -1
    [] OTHER -> 0

InfOfSign(s) == IF s < 0 THEN NInf ELSE PInf

\* a + b
AddOf[a \in Num, b \in Num] ==
  IF IsNaN(a) \/ IsNaN(b) THEN NaN
    ELSE IF IsFinite(a) /\ IsFinite(b) THEN Fin(a.v + b.v)
    ELSE IF IsFinite(a) THEN b
    ELSE IF IsFinite(b) THEN a
    ELSE IF a.cls = b.cls THEN a ELSE NaN

Add(a0, b0) == AddOf[a0, b0]

\* -a
NegOf[a \in Num] ==
  CASE a.cls = "fin" -> Fin(-a.v)
      [] a.cls = "pinf" -> NInf
      [] a.cls = "ninf" -> PInf
      [] OTHER -> NaN

Neg(a0) == NegOf[a0]

\* a - b
Sub(a, b) == Add(a, Neg(b))

\* a * b
MulOf[a \in Num, b \in Num] ==
  IF IsNaN(a) \/ IsNaN(b) THEN NaN
    ELSE IF IsFinite(a) /\ IsFinite(b) THEN Fin(a.v * b.v)
    ELSE IF SignOf(a) = 0 \/ SignOf(b) = 0 THEN NaN
    ELSE InfOfSign(SignOf(a) * SignOf(b))

Mul(a0, b0) == MulOf[a0, b0]

\* the quotient n / d of two integers, d # 0, rounded toward zero; a quotient
\* of a non-zero n never rounds to zero (a double does not underflow here)
QuotInt(n, d) ==
  IF n = 0 THEN 0
  ELSE IF Abs(n) \div Abs(d) = 0 THEN Sgn(n) * Sgn(d)
  ELSE Sgn(n) * Sgn(d) * (Abs(n) \div Abs(d))

\* a / b
DivOf[a \in Num, b \in Num] ==
  IF IsNaN(a) \/ IsNaN(b) THEN NaN
    ELSE IF IsFinite(a) /\ IsFinite(b) THEN
           IF b.v = 0 THEN (IF a.v = 0 THEN NaN ELSE InfOfSign(Sgn(a.v)))
           ELSE Fin(QuotInt(a.v, b.v))
    ELSE IF IsFinite(b) THEN
           InfOfSign(SignOf(a) * (IF b.v < 0 THEN -1 ELSE 1))
    ELSE IF IsFinite(a) THEN Fin(0)
    ELSE NaN

Div(a0, b0) == DivOf[a0, b0]

\* a < b (false when either side is NaN)
LtOf[a \in Num, b \in Num] ==
  IF IsNaN(a) \/ IsNaN(b) THEN FALSE
    ELSE IF IsFinite(a) /\ IsFinite(b) THEN a.v < b.v
    ELSE IF a.cls = b.cls THEN FALSE
    ELSE a.cls = "ninf" \/ b.cls = "pinf"

Lt(a0, b0) == LtOf[a0, b0]

\* Math.sin / Math.cos of an angle given in quarter turns
SinQOf[a \in Num] ==
  IF ~IsFinite(a) THEN NaN
    ELSE Fin(CASE a.v % 4 = 0 -> 0
               [] a.v % 4 = 1 -> 1
               [] a.v % 4 = 2 -> 0
               [] OTHER -> -1)

SinQ(a0) == SinQOf[a0]

CosQOf[a \in Num] ==
  IF ~IsFinite(a) THEN NaN
    ELSE Fin(CASE a.v % 4 = 0 -> 1
               [] a.v % 4 = 1 -> 0
               [] a.v % 4 = 2 -> -1
               [] OTHER -> 0)

CosQ(a0) == CosQOf[a0]

\* Math.sin / Math.cos of an argument of -1, 0 or 1 radian, in thousandths
SinRadOf[a \in Num] ==
  IF ~IsFinite(a) THEN NaN
    ELSE Fin(CASE a.v = 0 -> 0 [] a.v = 1 -> 841 [] a.v = -1 -> -841
               [] OTHER -> 0)

SinRad(a0) == SinRadOf[a0]

CosRadOf[a \in Num] ==
  IF ~IsFinite(a) THEN NaN
    ELSE Fin(CASE a.v = 0 -> 1000 [] a.v = 1 -> 540 [] a.v = -1 -> 540
               [] OTHER -> 0)

CosRad(a0) == CosRadOf[a0]

\* ------------------------------------------------------ DeformationMode
NewMode(id, kind, thetaFreq, phiFreq, defaultAmplitude) ==
  [id |-> id, kind |-> kind, thetaFreq |-> thetaFreq, phiFreq |-> phiFreq,
   scale |-> 1, defaultAmplitude |-> defaultAmplitude,
   amplitude |-> defaultAmplitude]

\* reset() that zeroes the amplitude instead of restoring the default
ModeResetZero(m) == [m EXCEPT !.amplitude = 0]

\* DeformationMode.reset
ModeReset(m) == [m EXCEPT !.amplitude = m.defaultAmplitude]

\* NoiseDeformation.noise3D, in thousandths: sin(x * 0.1 * scale) * cos(..) * sin(..)
noise3D(m, x, y, z) ==
  Div(Mul(Mul(SinRad(Div(Mul(x, Fin(m.scale)), Fin(10))),
              CosRad(Div(Mul(y, Fin(m.scale)), Fin(10)))),
          SinRad(Div(Mul(z, Fin(m.scale)), Fin(10)))),
      Fin(FP * FP))

\* mode.applyDeformation(theta, phi, basePoint), dispatched on the class
applyDeformation(m0, theta0, phi0, basePoint0) ==
  Only({ CASE m.kind = "Harmonic" ->
                Mul(Mul(Fin(m.amplitude), SinQ(Mul(Fin(m.thetaFreq), theta))),
                    SinQ(Mul(Fin(m.phiFreq), phi)))
           [] m.kind = "CosineHarmonic" ->
                Mul(Mul(Fin(m.amplitude), CosQ(Mul(Fin(m.thetaFreq), theta))),
                    SinQ(Mul(Fin(m.phiFreq), phi)))
           [] m.kind = "MixedHarmonic" ->
                Mul(Mul(Fin(m.amplitude), SinQ(Add(theta, Mul(Fin(3), phi)))),
                    CosQ(Mul(Fin(2), theta)))
           [] m.kind = "Noise" ->
                Div(Mul(Fin(m.amplitude),
                        noise3D(m, Mul(basePoint.x, Fin(10)), Mul(basePoint.y, Fin(10)),
                                Mul(basePoint.z, Fin(10)))),
                    Fin(FP))
           [] OTHER -> Fin(0)
         : m \in {m0}, theta \in {theta0}, phi \in {phi0}, basePoint \in {basePoint0} })

\* ---------------------------------------------------------- ShapeDeformer
setupDefaultModes ==
  << NewMode(1, "Harmonic", 3, 2, 0),
     NewMode(2, "Harmonic", 5, 3, 0),
     NewMode(3, "Harmonic", 7, 1, 0),
     NewMode(4, "CosineHarmonic", 4, 4, 0),
     NewMode(5, "Harmonic", 0, 3, 0),
     NewMode(6, "MixedHarmonic", 0, 0, 0),
     NewMode(7, "Noise", 0, 0, 0) >>

InRange(ms, index) == index >= 0 /\ index < Len(ms)

\* the sequence s without its element at 1-based position k
SeqRemoveAt(s, k) ==
  [n \in 1..(Len(s) - 1) |-> IF n < k THEN s[n] ELSE s[n + 1]]

\* addMode returning the length after the push
addModeRetLength(ms, mode) == Len(Append(ms, mode))

\* removeMode splicing at index - 1
removeModeModesShifted(ms, index) ==
  IF index >= 0 /\ index < Len(ms)
  THEN [n \in 1..(Len(ms) - 1) |-> IF n < index THEN ms[n] ELSE ms[n + 1]]
  ELSE ms

\* setAmplitude clamping the value to the slider range [0, 50]
setAmplitudeModesClamped(ms, index, value) ==
  IF index >= 0 /\ index < Len(ms)
  THEN [ms EXCEPT ![index + 1].amplitude =
          IF value > 50 THEN 50 ELSE IF value < 0 THEN 0 ELSE value]
  ELSE ms

\* applyPreset zeroing the modes beyond the preset's length
applyPresetModesZeroRest(ms, amplitudes) ==
  [n \in 1..Len(ms) |->
     [ms[n] EXCEPT !.amplitude = IF n <= Len(amplitudes) THEN amplitudes[n] ELSE 0]]

\* modes after addMode(mode) / its return value
addModeModes(ms, mode) == Append(ms, mode)
addModeRet(ms, mode) == Len(addModeModes(ms, mode)) - 1

\* modes after removeMode(index) / its return value (index is 0-based)
removeModeModes(ms, index) ==
  IF InRange(ms, index) THEN SeqRemoveAt(ms, index + 1) ELSE ms
removeModeRet(ms, index) == InRange(ms, index)

\* modes after setAmplitude(index, value) / its return value
setAmplitudeModes(ms, index, value) ==
  IF InRange(ms, index)
  THEN [ms EXCEPT ![index + 1].amplitude = value]
  ELSE ms
setAmplitudeRet(ms, index, value) == InRange(ms, index)

\* modes after applyPreset(presetConfig), where amplitudes is the preset's list
applyPresetModes(ms, amplitudes) ==
  [n \in 1..Len(ms) |->
     IF n <= Len(amplitudes) THEN [ms[n] EXCEPT !.amplitude = amplitudes[n]]
     ELSE ms[n]]

\* getCurrentPreset(name).amplitudes
getCurrentPreset(ms) == [n \in 1..Len(ms) |-> ms[n].amplitude]

presetConfigurations ==
  [sphere |-> <<0, 0, 0, 0, 0, 0, 0>>,
   star |-> <<30, 0, 0, 0, 0, 0, 0>>,
   rippled |-> <<0, 20, 10, 0, 0, 0, 0>>,
   twisted |-> <<0, 0, 0, 0, 0, 5, 0>>,
   noisy |-> <<0, 0, 0, 0, 0, 0, 8>>]

\* the sum over the first k modes of mode.applyDeformation(theta, phi, basePoint)
RECURSIVE totalDeformation(_, _, _, _, _)
totalDeformation(ms, k, theta, phi, basePoint) ==
  IF k = 0 THEN Fin(0)
  ELSE Add(totalDeformation(ms, k - 1, theta, phi, basePoint),
           applyDeformation(ms[k], theta, phi, basePoint))

\* the unit base point of the angles theta and phi
basePointOf(theta, phi) ==
  [x |-> Mul(SinQ(phi), CosQ(theta)),
   y |-> Mul(SinQ(phi), SinQ(theta)),
   z |-> CosQ(phi)]

\* a point whose z is left at the base point's z
deformedPointFlat(ms, theta, phi, basePoint) ==
  Only({ [x |-> Mul(r, basePoint.x), y |-> Mul(r, basePoint.y), z |-> basePoint.z]
         : r \in {Add(Fin(baseRadius),
                      totalDeformation(ms, Len(ms), theta, phi, basePoint))} })

\* the base point moved to the radius baseRadius + totalDeformation
deformedPoint(ms, theta, phi, basePoint) ==
  Only({ [x |-> Mul(r, basePoint.x), y |-> Mul(r, basePoint.y), z |-> Mul(r, basePoint.z)]
         : r \in {Add(Fin(baseRadius),
                      totalDeformation(ms, Len(ms), theta, phi, basePoint))} })

\* one grid point of createDeformedSphere, for loop indices j and i
spherePoint(ms, j, i, numPointsTheta, numPointsPhi) ==
  Only({ Only({ deformedPoint(ms, theta, phi, basePoint)
                : basePoint \in {basePointOf(theta, phi)} })
         : phi \in {Div(Mul(Fin(j), Fin(2)), Fin(numPointsPhi))},
           theta \in {Div(Mul(Fin(i), Fin(4)), Fin(numPointsTheta))} })

\* createDeformedSphere with loops that stop before numPointsPhi and
\* numPointsTheta (j < numPointsPhi, i < numPointsTheta)
createDeformedSphereExclusive(ms, numPointsTheta, numPointsPhi) ==
  [jj \in 1..numPointsPhi |->
     [ii \in 1..numPointsTheta |->
        spherePoint(ms, jj - 1, ii - 1, numPointsTheta, numPointsPhi)]]

\* createDeformedSphere: rows j = 0..numPointsPhi of points i = 0..numPointsTheta
createDeformedSphere(ms, numPointsTheta, numPointsPhi) ==
  [jj \in 1..(numPointsPhi + 1) |->
     [ii \in 1..(numPointsTheta + 1) |->
        spherePoint(ms, jj - 1, ii - 1, numPointsTheta, numPointsPhi)]]

\* ---------------------------------------------------------------- Renderer
\* floor(sqrt(n)) for n >= 0, by bisection on lo..hi
RECURSIVE ISqrtIn(_, _, _)
ISqrtIn(n0, lo0, hi0) ==
  Only({ IF lo >= hi THEN lo
         ELSE IF ((lo + hi + 1) \div 2) * ((lo + hi + 1) \div 2) <= n
              THEN ISqrtIn(n, (lo + hi + 1) \div 2, hi)
              ELSE ISqrtIn(n, lo, ((lo + hi + 1) \div 2) - 1)
         : n \in {n0}, lo \in {lo0}, hi \in {hi0} })

\* Math.sqrt
SqrtOf[a \in Num] ==
  IF IsNaN(a) THEN NaN
    ELSE IF a.cls = "pinf" THEN PInf
    ELSE IF a.cls = "ninf" \/ a.v < 0 THEN NaN
    ELSE Fin(ISqrtIn(a.v, 0, 46340))

Sqrt(a0) == SqrtOf[a0]

Max3(a, b, c) ==
  IF a >= b /\ a >= c THEN a ELSE IF b >= c THEN b ELSE c

\* the vector v (thousandths) divided by the length
scaleTo(v, length) ==
  [x |-> Div(Mul(v.x, Fin(FP)), length),
   y |-> Div(Mul(v.y, Fin(FP)), length),
   z |-> Div(Mul(v.z, Fin(FP)), length)]

\* Math.sqrt(v.x ** 2 + v.y ** 2 + v.z ** 2)
lengthOf(v) == Sqrt(Add(Add(Mul(v.x, v.x), Mul(v.y, v.y)), Mul(v.z, v.z)))

\* normalizeLightDirection: the vector v (thousandths) divided by its length
normalizeLightDirection(v0) ==
  Only({ Only({ scaleTo(v, lightLength) : lightLength \in {lengthOf(v)} })
         : v \in {v0} })

\* rotatePoint(point, angleX, angleY); angleX / 100 * PI is angleX / 50 quarter turns
rotatePoint(point0, angleX, angleY) ==
  Only({ Only({ [x |-> Add(Mul(point.x, CosQ(radY)), Mul(z1, SinQ(radY))),
                 y |-> y1,
                 z |-> Add(Mul(Neg(point.x), SinQ(radY)), Mul(z1, CosQ(radY)))]
                : y1 \in {Sub(Mul(point.y, CosQ(radX)), Mul(point.z, SinQ(radX)))},
                  z1 \in {Add(Mul(point.y, SinQ(radX)), Mul(point.z, CosQ(radX)))} })
         : point \in {point0},
           radX \in {Div(Fin(angleX), Fin(50))},
           radY \in {Div(Fin(angleY), Fin(50))} })

\* a divisor that adds the depth factor instead of multiplying by it
projectScaleSum(point, depth) == Add(Fin(FP), Add(Mul(point.z, Fin(FP)), Fin(depth)))

\* the divisor of projectPoint, 1 + point.z * (depth / 1000), in thousandths
projectScale(point, depth) == Add(Fin(FP), Mul(point.z, Fin(depth)))

\* projectPoint(point, depth): x and y in thousandths of a pixel, z as given
projectPoint(cv, point0, depth) ==
  Only({ Only({ [x |-> Add(Div(Fin(cv.width * FP), Fin(2)),
                           Div(Mul(point.x, Fin(FP * FP)), scale)),
                 y |-> Add(Div(Fin(cv.height * FP), Fin(2)),
                           Div(Mul(point.y, Fin(FP * FP)), scale)),
                 z |-> point.z]
                : scale \in {projectScale(point, depth)} })
         : point \in {point0} })

\* the cross product v1 x v2
cross(v1, v2) ==
  [x |-> Sub(Mul(v1.y, v2.z), Mul(v1.z, v2.y)),
   y |-> Sub(Mul(v1.z, v2.x), Mul(v1.x, v2.z)),
   z |-> Sub(Mul(v1.x, v2.y), Mul(v1.y, v2.x))]

\* the cross product (p2 - p1) x (p3 - p1) of calculateNormal, before it is
\* normalized
crossProduct(p10, p20, p30) ==
  Only({ Only({ cross(v1, v2)
                : v1 \in {[x |-> Sub(p2.x, p1.x), y |-> Sub(p2.y, p1.y), z |-> Sub(p2.z, p1.z)]},
                  v2 \in {[x |-> Sub(p3.x, p1.x), y |-> Sub(p3.y, p1.y), z |-> Sub(p3.z, p1.z)]} })
         : p1 \in {p10}, p2 \in {p20}, p3 \in {p30} })

\* a normalisation that gives a vector of length zero the direction (0, 0, -1)
unitVectorOrFacing(c0) ==
  Only({ IF c.x = Fin(0) /\ c.y = Fin(0) /\ c.z = Fin(0)
         THEN [x |-> Fin(0), y |-> Fin(0), z |-> Fin(-FP)]
         ELSE Only({ Only({ scaleTo(u, length) : length \in {lengthOf(u)} })
                     : u \in {scaleTo(c, Fin(Max3(Abs(c.x.v), Abs(c.y.v),
                                                   Abs(c.z.v))))} })
         : c \in {c0} })

\* the vector c divided by its length, in thousandths.  The quotient is
\* evaluated on c scaled to a largest component of 1000, which keeps the
\* squares inside the integers; a zero vector has length 0 and every component
\* is 0 / 0 = NaN.
unitVector(c0) ==
  Only({ Only({ Only({ scaleTo(u, length) : length \in {lengthOf(u)} })
                : u \in {scaleTo(c, Fin(Max3(Abs(c.x.v), Abs(c.y.v), Abs(c.z.v))))} })
         : c \in {c0} })

\* calculateNormal(p1, p2, p3)
calculateNormal(p1, p2, p3) == unitVector(crossProduct(p1, p2, p3))

\* Math.max(a, b)
MathMaxOf[a \in Num, b \in Num] ==
  IF IsNaN(a) \/ IsNaN(b) THEN NaN ELSE IF Lt(a, b) THEN b ELSE a

MathMax(a0, b0) == MathMaxOf[a0, b0]

\* Math.floor of a value in thousandths, in whole units
MathFloorOf[a \in Num] ==
  IF IsFinite(a) THEN Fin(a.v \div FP) ELSE a

MathFloor(a0) == MathFloorOf[a0]

\* normal . lightDir, in thousandths
dotProduct(normal, light) ==
  Div(Add(Add(Mul(normal.x, light.x), Mul(normal.y, light.y)),
          Mul(normal.z, light.z)), Fin(FP))

\* calculateLighting rounding the channels to the nearest integer
calculateLightingRounded(light, normal) ==
  Only({ << MathFloor(Add(Mul(Fin(40), intensity), Fin(FP \div 2))),
            MathFloor(Add(Mul(Fin(120), intensity), Fin(FP \div 2))),
            MathFloor(Add(Fin(120 * FP + FP \div 2), Mul(Fin(135), intensity))) >>
         : intensity \in {MathMax(Fin(100), dotProduct(normal, light))} })

\* calculateLighting(normal): the colour <<red, green, blue>>
calculateLighting(light, normal) ==
  Only({ << MathFloor(Mul(Fin(40), intensity)),
            MathFloor(Mul(Fin(120), intensity)),
            MathFloor(Add(Fin(120 * FP), Mul(Fin(135), intensity))) >>
         : intensity \in {MathMax(Fin(100), dotProduct(normal, light))} })

\* a backface test that also keeps normal.z = 0
facingOrEdgeOn(normal) == Lt(normal.z, Fin(0)) \/ normal.z = Fin(0)

\* the backface test of draw: normal.z < 0
facing(normal) == Lt(normal.z, Fin(0))

\* avgZ of a triangle, in thousandths
avgZOf(a, b, c) == Div(Mul(Add(Add(a.z, b.z), c.z), Fin(FP)), Fin(3))

\* a candidate triangle: src = <<j, i, k>> names the quad and the triangle
\* (1 or 2) of the loop iteration that builds it
candidate(src, a, b, c, a_2d, b_2d, c_2d, avgZ) ==
  [src |-> src, normal |-> calculateNormal(a, b, c),
   points |-> <<a_2d, b_2d, c_2d>>, avgZ |-> avgZ]

\* The two candidate triangles of the quad (j, i) (0-based loop indices) as draw
\* builds them.
quadCandidates(mesh, cv, rotX, camAngle, depth, j, i) ==
  Only({ Only({ << candidate(<<j, i, 1>>, p1, p2, p3, p1_2d, p2_2d, p3_2d,
                             avgZOf(p1, p2, p3)),
                   candidate(<<j, i, 2>>, p2, p4, p3, p2_2d, p4_2d, p3_2d,
                             avgZOf(p2, p3, p4)) >>
                : p1_2d \in {projectPoint(cv, p1, depth)},
                  p2_2d \in {projectPoint(cv, p2, depth)},
                  p3_2d \in {projectPoint(cv, p3, depth)},
                  p4_2d \in {projectPoint(cv, p4, depth)} })
         : p1 \in {rotatePoint(mesh[j + 1][i + 1], rotX, camAngle)},
           p2 \in {rotatePoint(mesh[j + 1][i + 2], rotX, camAngle)},
           p3 \in {rotatePoint(mesh[j + 2][i + 1], rotX, camAngle)},
           p4 \in {rotatePoint(mesh[j + 2][i + 2], rotX, camAngle)} })

\* number of iterations of a loop "for (k = 0; k < length - 1; k++)"
LoopCount(length) == IF length >= 1 THEN length - 1 ELSE 0

\* all candidate triangles of a mesh in the order the nested loops visit them
RECURSIVE rowCandidates(_, _, _, _, _, _, _)
rowCandidates(mesh, cv, rotX, camAngle, depth, j, n0) ==
  Only({ IF n = 0 THEN << >>
         ELSE rowCandidates(mesh, cv, rotX, camAngle, depth, j, n - 1)
              \o quadCandidates(mesh, cv, rotX, camAngle, depth, j, n - 1)
         : n \in {n0} })

RECURSIVE meshCandidates(_, _, _, _, _, _)
meshCandidates(mesh, cv, rotX, camAngle, depth, n0) ==
  Only({ IF n = 0 THEN << >>
         ELSE meshCandidates(mesh, cv, rotX, camAngle, depth, n - 1)
              \o rowCandidates(mesh, cv, rotX, camAngle, depth, n - 1,
                               LoopCount(Len(mesh[n])))
         : n \in {n0} })

\* an entry coloured with the light direction the renderer was constructed with
triangleOfFirstLight(c, light) ==
  [src |-> c.src, points |-> c.points,
   color |-> calculateLighting(normalizeLightDirection(
                                 [x |-> Fin(500), y |-> Fin(-500), z |-> Fin(700)]),
                               c.normal),
   avgZ |-> c.avgZ]

\* the entry draw pushes for a candidate that passes the cull
triangleOf(c, light) ==
  [src |-> c.src, points |-> c.points,
   color |-> calculateLighting(light, c.normal), avgZ |-> c.avgZ]

\* the candidates that pass the cull, in loop order, as pushed
RECURSIVE cullTriangles(_, _)
cullTriangles(cands0, light) ==
  Only({ IF cands = << >> THEN << >>
         ELSE IF facing(Head(cands).normal)
              THEN <<triangleOf(Head(cands), light)>> \o cullTriangles(Tail(cands), light)
              ELSE cullTriangles(Tail(cands), light)
         : cands \in {cands0} })

\* a comparator sorting front to back
compareAvgZDescending(a, b) == Sub(b.avgZ, a.avgZ)

\* the comparator of triangles.sort: a.avgZ - b.avgZ
compareAvgZ(a, b) == Sub(a.avgZ, b.avgZ)

\* t inserted into the sorted sequence s behind every entry it does not precede
RECURSIVE insertSorted(_, _)
insertSorted(s0, t0) ==
  Only({ IF s = << >> THEN <<t>>
         ELSE IF Lt(compareAvgZ(t, Head(s)), Fin(0)) THEN <<t>> \o s
         ELSE <<Head(s)>> \o insertSorted(Tail(s), t)
         : s \in {s0}, t \in {t0} })

\* triangles.sort(...): Array.prototype.sort is stable
RECURSIVE sortTriangles(_, _)
sortTriangles(s0, n0) ==
  Only({ IF n = 0 THEN << >> ELSE insertSorted(sortTriangles(s, n - 1), s[n])
         : s \in {s0}, n \in {n0} })

\* a draw that leaves the earlier fills in place
clearRectKeeps(fills) == fills

\* ctx.clearRect(0, 0, canvas.width, canvas.height) on the fills the surface
\* holds: nothing of them is left
clearRect(fills) == << >>

\* a draw that builds its triangles from the mesh of the modes as constructed
drawCandidatesCached(ms, cv, rotX, camAngle, depth, numPointsTheta, numPointsPhi) ==
  Only({ meshCandidates(spherePoints, cv, rotX, camAngle, depth,
                        LoopCount(Len(spherePoints)))
         : spherePoints \in {createDeformedSphere(setupDefaultModes, numPointsTheta,
                                                  numPointsPhi)} })

\* the candidate triangles draw examines, in loop order
drawCandidates(ms, cv, rotX, camAngle, depth, numPointsTheta, numPointsPhi) ==
  Only({ meshCandidates(spherePoints, cv, rotX, camAngle, depth,
                        LoopCount(Len(spherePoints)))
         : spherePoints \in {createDeformedSphere(ms, numPointsTheta, numPointsPhi)} })

\* the triangles draw fills, in the order it fills them
drawList(ms, cv, light, rotX, camAngle, depth, numPointsTheta, numPointsPhi) ==
  Only({ sortTriangles(triangles, Len(triangles))
         : triangles \in {cullTriangles(
                            drawCandidates(ms, cv, rotX, camAngle, depth,
                                           numPointsTheta, numPointsPhi), light)} })

\* ---------------------------------------------------------- animation loop
\* animate requesting a frame both before and after it draws
requestAnimationFrameTwice(queue) == queue + 2

\* the queue of frame callbacks after requestAnimationFrame(animate), as the
\* number of runs of animate that are due
requestAnimationFrame(queue) == queue + 1

\* ------------------------------------------------------------------ the UI
\* the range of the sliders createSliderControl builds: config.minValue and
\* config.maxValue of defaultOptions (the step is 1, and so is every amplitude
\* here a whole number)
defaultOptions == [minValue |-> 0, maxValue |-> 50]

\* the range of the three sliders mode1, mode2, mode3 of the page
existingSliderRange == [minValue |-> 0, maxValue |-> 50]

sliderRange(i) == IF i < 3 THEN existingSliderRange ELSE defaultOptions

\* the value slider i shows after "slider.value = v": a range input keeps a
\* value inside its minimum and maximum
setSliderValue(i, v) ==
  IF v < sliderRange(i).minValue THEN sliderRange(i).minValue
  ELSE IF v > sliderRange(i).maxValue THEN sliderRange(i).maxValue
  ELSE v

\* setupDeformationUI: one slider per mode present at set-up, showing the
\* mode's amplitude; slider i keeps the index i it was created with
setupDeformationUI(ms) == [n \in 1..Len(ms) |-> setSliderValue(n - 1, ms[n].amplitude)]

\* an update that writes the three sliders of the page only
updateDeformationUIExisting(ms, sliders) ==
  [n \in 1..Len(sliders) |->
     IF n <= Len(ms) /\ n <= 3 THEN setSliderValue(n - 1, ms[n].amplitude)
     ELSE sliders[n]]

\* the sliders after updateDeformationUI: slider i is set to the amplitude of
\* mode i when i is below the mode count and the slider exists
updateDeformationUI(ms, sliders) ==
  [n \in 1..Len(sliders) |->
     IF n <= Len(ms) THEN setSliderValue(n - 1, ms[n].amplitude) ELSE sliders[n]]

\* a listener that looks up the mode its slider was created for (by identity)
\* and passes the index the mode has now, -1 when the mode is gone
listenerIndexByMode(ms, i) ==
  IF \E n \in 1..Len(ms) : ms[n].id = setupDefaultModes[i + 1].id
  THEN (CHOOSE n \in 1..Len(ms) : ms[n].id = setupDefaultModes[i + 1].id) - 1
  ELSE -1

\* the index the input listener of slider i passes to setAmplitude: the i of
\* the loop iteration that created the listener, whatever the modes are now
listenerIndex(ms, i) == i

\* a reset that calls mode.reset() on each mode
resetDeformationUIModesToDefault(ms, k0) ==
  [n \in 1..Len(ms) |-> IF n <= k0 THEN ModeReset(ms[n]) ELSE ms[n]]

\* the modes after the first k iterations of resetDeformationUI's loop, each
\* of which calls setAmplitude(i, 0)
RECURSIVE resetDeformationUIModes(_, _)
resetDeformationUIModes(ms, k0) ==
  Only({ IF k = 0 THEN ms
         ELSE setAmplitudeModes(resetDeformationUIModes(ms, k - 1), k - 1, 0)
         : k \in {k0} })

\* the sliders after resetDeformationUI: slider i is set to 0 when i is below
\* the mode count and the slider exists
resetDeformationUISliders(ms, sliders) ==
  [n \in 1..Len(sliders) |-> IF n <= Len(ms) THEN 0 ELSE sliders[n]]

\* ------------------------------------------------------------------ inputs
SliderChoices == {0, 6}
SliderValues == {20}
PresetKeys == {"star", "twisted"}
Amplitudes == {0, 50, 400}
IndexChoices == {-1, 0, 1, 5, Len(modes) - 1, Len(modes)}
PresetChoices ==
  {presetConfigurations.sphere, presetConfigurations.star,
   presetConfigurations.rippled, presetConfigurations.twisted,
   presetConfigurations.noisy, <<10, 20>>, <<1, 2, 3, 4, 5, 6, 7, 8, 9>>}
NewModeChoices ==
  {NewMode(nextId, "Harmonic", 1, 1, 10), NewMode(nextId, "MixedHarmonic", 0, 0, 0)}
LightChoices == {<<0, 0, 1000>>, <<-1000, 2000, -2000>>, <<0, 0, -1000>>}
WindowSizes == {<<800, 600>>, <<1025, 768>>}
\* <<rotX, camAngle, depth, numPointsTheta, numPointsPhi>>
DrawChoices ==
  {<<0, 0, 0, 4, 2>>, <<0, 50, 0, 4, 2>>, <<50, 0, 5, 4, 2>>, <<100, 50, 4, 4, 2>>,
   <<0, 0, -5, 4, 2>>, <<0, 0, 5, 2, 1>>, <<50, 0, 0, 2, 2>>,
   <<0, 0, 0, 0, 2>>, <<0, 0, 0, 4, 0>>, <<0, 0, 5, -1, 2>>, <<0, 0, 5, 4, -2>>}

\* ------------------------------------------------------------------ state
NoOp == [op |-> "new", args |-> << >>, ok |-> TRUE, idx |-> -1, threw |-> FALSE]

Op(name, args, ok, idx) ==
  [op |-> name, args |-> args, ok |-> ok, idx |-> idx, threw |-> FALSE]

\* resizeCanvas with window.innerWidth = w[1] and window.innerHeight = w[2]
resizeCanvas(w) == [width |-> w[1], height |-> w[2]]

Vec(v) == [x |-> Fin(v[1]), y |-> Fin(v[2]), z |-> Fin(v[3])]

Init ==
  /\ modes = setupDefaultModes
  /\ nextId = Len(setupDefaultModes) + 1
  /\ lightDir = normalizeLightDirection(Vec(<<500, -500, 700>>))
  /\ canvas = resizeCanvas(<<800, 600>>)
  /\ painted = << >>
  /\ lastOp = NoOp
  /\ steps = 0
  /\ frame = 0
  /\ pending = 1
  /\ modeSliders = setupDeformationUI(setupDefaultModes)

\* ---------------------------------------------------------------- actions
AddMode(mode) ==
  /\ steps < MaxSteps
  /\ nextId - Len(setupDefaultModes) - 1 < MaxAdded
  /\ modes' = addModeModes(modes, mode)
  /\ nextId' = nextId + 1
  /\ lastOp' = Op("addMode", <<mode.id>>, TRUE, addModeRet(modes, mode))
  /\ steps' = steps + 1
  /\ UNCHANGED <<lightDir, canvas, painted, frame, pending, modeSliders>>

RemoveMode(index) ==
  /\ steps < MaxSteps
  /\ modes' = removeModeModes(modes, index)
  /\ lastOp' = Op("removeMode", <<index>>, removeModeRet(modes, index), -1)
  /\ steps' = steps + 1
  /\ UNCHANGED <<nextId, lightDir, canvas, painted, frame, pending, modeSliders>>

SetAmplitude(index, value) ==
  /\ steps < MaxSteps
  /\ modes' = setAmplitudeModes(modes, index, value)
  /\ lastOp' = Op("setAmplitude", <<index, value>>,
                  setAmplitudeRet(modes, index, value), -1)
  /\ steps' = steps + 1
  /\ UNCHANGED <<nextId, lightDir, canvas, painted, frame, pending, modeSliders>>

ApplyPreset(amplitudes) ==
  /\ steps < MaxSteps
  /\ modes' = applyPresetModes(modes, amplitudes)
  /\ lastOp' = Op("applyPreset", amplitudes, TRUE, -1)
  /\ steps' = steps + 1
  /\ UNCHANGED <<nextId, lightDir, canvas, painted, frame, pending, modeSliders>>

\* modes[index].reset() on a mode of the deformer
Reset(index) ==
  /\ steps < MaxSteps
  /\ InRange(modes, index)
  /\ modes' = [modes EXCEPT ![index + 1] = ModeReset(modes[index + 1])]
  /\ lastOp' = Op("reset", <<index>>, TRUE, -1)
  /\ steps' = steps + 1
  /\ UNCHANGED <<nextId, lightDir, canvas, painted, frame, pending, modeSliders>>

SetLightDirection(v) ==
  /\ steps < MaxSteps
  /\ lightDir' = normalizeLightDirection(Vec(v))
  /\ lastOp' = Op("setLightDirection", v, TRUE, -1)
  /\ steps' = steps + 1
  /\ UNCHANGED <<modes, nextId, canvas, painted, frame, pending, modeSliders>>

ResizeCanvas(w) ==
  /\ steps < MaxSteps
  /\ canvas' = resizeCanvas(w)
  /\ lastOp' = Op("resizeCanvas", w, TRUE, -1)
  /\ steps' = steps + 1
  /\ UNCHANGED <<modes, nextId, lightDir, painted, frame, pending, modeSliders>>

\* one run of animate: renderer.draw, then requestAnimationFrame(animate)
Draw(d) ==
  /\ steps < MaxSteps
  /\ pending > 0
  /\ painted' = clearRect(painted)
                  \o drawList(modes, canvas, lightDir, d[1], d[2], d[3], d[4], d[5])
  /\ frame' = frame + 1
  /\ pending' = requestAnimationFrame(pending - 1)
  /\ lastOp' = Op("draw", d, TRUE, -1)
  /\ steps' = steps + 1
  /\ UNCHANGED <<modes, nextId, lightDir, canvas, modeSliders>>

\* an input event of slider i: the listener shows the value and calls
\* setAmplitude(i, parseFloat(value)) with the index it was created with
SliderInput(i, value) ==
  /\ steps < MaxSteps
  /\ i >= 0 /\ i < Len(modeSliders)
  /\ modeSliders' = [modeSliders EXCEPT ![i + 1] = value]
  /\ modes' = setAmplitudeModes(modes, listenerIndex(modes, i), value)
  /\ lastOp' = Op("sliderInput", <<i, value>>,
                  setAmplitudeRet(modes, listenerIndex(modes, i), value), -1)
  /\ steps' = steps + 1
  /\ UNCHANGED <<nextId, lightDir, canvas, painted, frame, pending>>

\* a click on the reset button: resetDeformationUI(shapeDeformer, modeSliders,
\* modeValues)
ResetDeformationUI ==
  /\ steps < MaxSteps
  /\ modes' = resetDeformationUIModes(modes, Len(modes))
  /\ modeSliders' = resetDeformationUISliders(modes, modeSliders)
  /\ lastOp' = Op("resetDeformationUI", << >>, TRUE, -1)
  /\ steps' = steps + 1
  /\ UNCHANGED <<nextId, lightDir, canvas, painted, frame, pending>>

\* a change event of the preset selector: applyPreset(selectedPreset), then
\* updateCallback = updateDeformationUI
PresetChange(presetKey) ==
  /\ steps < MaxSteps
  /\ modes' = applyPresetModes(modes, presetConfigurations[presetKey])
  /\ modeSliders' = updateDeformationUI(modes', modeSliders)
  /\ lastOp' = Op("presetChange", <<presetKey>>, TRUE, -1)
  /\ steps' = steps + 1
  /\ UNCHANGED <<nextId, lightDir, canvas, painted, frame, pending>>

Next ==
  \/ \E mode \in NewModeChoices : AddMode(mode)
  \/ \E index \in IndexChoices : RemoveMode(index)
  \/ \E index \in IndexChoices, value \in Amplitudes : SetAmplitude(index, value)
  \/ \E amplitudes \in PresetChoices : ApplyPreset(amplitudes)
  \/ \E index \in IndexChoices : Reset(index)
  \/ \E v \in LightChoices : SetLightDirection(v)
  \/ \E w \in WindowSizes : ResizeCanvas(w)
  \/ \E d \in DrawChoices : Draw(d)
  \/ \E i \in SliderChoices, value \in SliderValues : SliderInput(i, value)
  \/ ResetDeformationUI
  \/ \E presetKey \in PresetKeys : PresetChange(presetKey)

Spec == Init /\ [][Next]_vars

\* ------------------------------------------------------------------ claims
OpIs(name) == lastOp.op = name
Stepped(name) == lastOp'.op = name /\ steps' = steps + 1
Ids(ms) == [n \in 1..Len(ms) |-> ms[n].id]

\* C1: setAmplitude(index, value) with 0 <= index < modeCount returns true and
\* sets exactly modes[index].amplitude to value as given (no clamping), every
\* other mode and the mode count unchanged; with index out of range it returns
\* false, throws nothing and leaves the mode sequence unchanged.
C1_SetAmplitude ==
  [][Stepped("setAmplitude") =>
       LET index == lastOp'.args[1]
           value == lastOp'.args[2]
       IN  /\ ~lastOp'.threw
           /\ IF index >= 0 /\ index < Len(modes)
              THEN /\ lastOp'.ok
                   /\ Len(modes') = Len(modes)
                   /\ modes'[index + 1].amplitude = value
                   /\ modes'[index + 1] = [modes[index + 1] EXCEPT !.amplitude = value]
                   /\ \A k \in 1..Len(modes) : k # index + 1 => modes'[k] = modes[k]
              ELSE /\ ~lastOp'.ok
                   /\ modes' = modes]_vars

C1_Witness ==
  /\ OpIs("setAmplitude") /\ lastOp.ok
  /\ lastOp.args[2] > 50
  /\ modes[lastOp.args[1] + 1].amplitude = lastOp.args[2]

\* C2: removeMode(index) with 0 <= index < modeCount returns true, the count
\* drops by one, modes before index keep their index and every mode formerly at
\* k > index is at k - 1 with its amplitude unchanged; with index out of range it
\* returns false and the mode sequence is unchanged.
C2_RemoveMode ==
  [][Stepped("removeMode") =>
       LET index == lastOp'.args[1]
       IN  IF index >= 0 /\ index < Len(modes)
           THEN /\ lastOp'.ok
                /\ Len(modes') = Len(modes) - 1
                /\ \A k \in 0..(Len(modes) - 1) :
                     /\ k < index => modes'[k + 1] = modes[k + 1]
                     /\ k > index => modes'[k] = modes[k + 1]
           ELSE /\ ~lastOp'.ok
                /\ modes' = modes]_vars

C2_Witness ==
  /\ OpIs("removeMode") /\ lastOp.ok
  /\ lastOp.args[1] > 0
  /\ \E k \in 1..Len(modes) : k > lastOp.args[1] /\ modes[k].amplitude # 0
  /\ \E k \in 1..Len(modes) : k <= lastOp.args[1]

\* C3: after applyPreset(preset), getCurrentPreset has length modeCount, entry i
\* is preset.amplitudes[i] for i < min(modeCount, preset length) and the earlier
\* amplitude of mode i otherwise; mode count and mode order do not change.
C3_ApplyPreset ==
  [][Stepped("applyPreset") =>
       LET amplitudes == lastOp'.args
           current == getCurrentPreset(modes')
       IN  /\ Len(current) = Len(modes)
           /\ Len(modes') = Len(modes)
           /\ Ids(modes') = Ids(modes)
           /\ \A n \in 1..Len(modes) :
                current[n] = IF n <= Len(amplitudes) THEN amplitudes[n]
                             ELSE modes[n].amplitude]_vars

C3_Witness ==
  /\ OpIs("applyPreset")
  /\ Len(lastOp.args) < Len(modes)
  /\ getCurrentPreset(modes)[1] = lastOp.args[1]
  /\ getCurrentPreset(modes)[Len(modes)] # 0

\* C4: addMode(mode) appends the mode and returns the mode count before the
\* call, earlier modes keep index and amplitude; and a mode stays at its index
\* in every step that is not a removeMode at a lower-or-equal index.
C4_AddMode ==
  [][/\ Stepped("addMode") =>
          /\ lastOp'.idx = Len(modes)
          /\ Len(modes') = Len(modes) + 1
          /\ modes'[lastOp'.idx + 1].id = lastOp'.args[1]
          /\ \A k \in 1..Len(modes) : modes'[k] = modes[k]
     /\ \A k \in 0..(Len(modes) - 1) :
          \/ Stepped("removeMode") /\ lastOp'.ok /\ lastOp'.args[1] <= k
          \/ k < Len(modes') /\ modes'[k + 1].id = modes[k + 1].id]_vars

C4_Witness ==
  /\ ~OpIs("addMode")
  /\ \E k \in 1..Len(modes) :
       modes[k].id > Len(setupDefaultModes) /\ k = modes[k].id

\* C5: reset() of a mode sets amplitude to defaultAmplitude whatever it was,
\* leaves defaultAmplitude (and every other mode) unchanged, and a second reset
\* changes nothing.
C5_Reset ==
  [][Stepped("reset") =>
       LET n == lastOp'.args[1] + 1
       IN  /\ modes'[n].amplitude = modes[n].defaultAmplitude
           /\ modes'[n].defaultAmplitude = modes[n].defaultAmplitude
           /\ ModeReset(modes'[n]) = modes'[n]
           /\ Len(modes') = Len(modes)
           /\ \A k \in 1..Len(modes) : k # n => modes'[k] = modes[k]]_vars

C5_Witness ==
  /\ OpIs("reset") /\ steps >= 2
  /\ modes[lastOp.args[1] + 1].amplitude = modes[lastOp.args[1] + 1].defaultAmplitude
  /\ \E k \in 1..Len(modes) : modes[k].amplitude # modes[k].defaultAmplitude

\* C6: numPointsTheta <= 0 or numPointsPhi <= 0 is rejected: draw (and the mesh
\* generation it calls) fails with a precondition error.
C6_FailFast ==
  (OpIs("draw") /\ (lastOp.args[4] <= 0 \/ lastOp.args[5] <= 0)) => lastOp.threw

\* C7: no triangle of the draw list has an infinite or NaN 2D coordinate.
C7_ProjectionFinite ==
  \A k \in 1..Len(painted) : \A n \in 1..3 :
    IsFinite(painted[k].points[n].x) /\ IsFinite(painted[k].points[n].y)

\* the rotated grid points of the last draw
LastDrawRotated ==
  LET mesh == createDeformedSphere(modes, lastOp.args[4], lastOp.args[5])
  IN  {rotatePoint(mesh[j][i], lastOp.args[1], lastOp.args[2]) :
         j \in 1..(lastOp.args[5] + 1), i \in 1..(lastOp.args[4] + 1)}

\* C8: with depth = 0 the projection scale is 1 for every point whatever its z,
\* so x2d = width / 2 + x and y2d = height / 2 + y, and nothing divides by zero.
C8_DepthZero ==
  (OpIs("draw") /\ lastOp.args[3] = 0 /\ lastOp.args[4] >= 1 /\ lastOp.args[5] >= 1) =>
     /\ \A p \in LastDrawRotated :
          /\ projectScale(p, 0) = Fin(FP)
          /\ projectPoint(canvas, p, 0).x = Fin((canvas.width * FP) \div 2 + p.x.v * FP)
          /\ projectPoint(canvas, p, 0).y = Fin((canvas.height * FP) \div 2 + p.y.v * FP)
     /\ C7_ProjectionFinite

C8_Witness ==
  /\ OpIs("draw") /\ lastOp.args[3] = 0
  /\ Len(painted) > 0
  /\ \E p \in LastDrawRotated : p.z.v < 0
  /\ \E p \in LastDrawRotated : p.z.v > 0
  /\ \E p \in LastDrawRotated : p.x.v # 0

\* the face normal of candidate triangle k (1 or 2) of quad (j, i) of the last
\* draw, from the rotated pre-projection vertices
MeshNormal(mesh, j, i, k) ==
  IF k = 1
  THEN calculateNormal(
         rotatePoint(mesh[j + 1][i + 1], lastOp.args[1], lastOp.args[2]),
         rotatePoint(mesh[j + 1][i + 2], lastOp.args[1], lastOp.args[2]),
         rotatePoint(mesh[j + 2][i + 1], lastOp.args[1], lastOp.args[2]))
  ELSE calculateNormal(
         rotatePoint(mesh[j + 1][i + 2], lastOp.args[1], lastOp.args[2]),
         rotatePoint(mesh[j + 2][i + 2], lastOp.args[1], lastOp.args[2]),
         rotatePoint(mesh[j + 2][i + 1], lastOp.args[1], lastOp.args[2]))

LastDrawNormal(j, i, k) ==
  MeshNormal(createDeformedSphere(modes, lastOp.args[4], lastOp.args[5]), j, i, k)

PaintedCount(src) == Cardinality({n \in 1..Len(painted) : painted[n].src = src})

\* C9: a candidate triangle is in the frame's draw list iff the z component of
\* its face normal (rotated, pre-projection vertices) is strictly negative;
\* every other one is discarded and each survivor appears exactly once.
C9_BackfaceCull ==
  OpIs("draw") =>
     /\ \A mesh \in {createDeformedSphere(modes, lastOp.args[4], lastOp.args[5])} :
          \A j \in 0..(lastOp.args[5] - 1), i \in 0..(lastOp.args[4] - 1), k \in 1..2 :
            PaintedCount(<<j, i, k>>) =
               IF Lt(MeshNormal(mesh, j, i, k).z, Fin(0)) THEN 1 ELSE 0
     /\ \A n \in 1..Len(painted) :
          /\ painted[n].src[1] \in 0..(lastOp.args[5] - 1)
          /\ painted[n].src[2] \in 0..(lastOp.args[4] - 1)
          /\ painted[n].src[3] \in 1..2

C9_Witness ==
  /\ OpIs("draw")
  /\ Len(painted) > 0
  /\ Len(painted) < 2 * lastOp.args[4] * lastOp.args[5]
  /\ \E j \in 0..(lastOp.args[5] - 1), i \in 0..(lastOp.args[4] - 1), k \in 1..2 :
       LastDrawNormal(j, i, k).z = Fin(0)

\* C10: the fills of one draw are in non-decreasing avgZ order, avgZ being the
\* mean of the triangle's three rotated pre-projection z coordinates.
C10_PaintOrder ==
  /\ \A a \in 1..Len(painted), b \in 1..Len(painted) :
       Lt(painted[a].avgZ, painted[b].avgZ) => a < b
  /\ \A a \in 1..Len(painted) :
       painted[a].avgZ =
         avgZOf(painted[a].points[1], painted[a].points[2], painted[a].points[3])

C10_Witness ==
  /\ OpIs("draw")
  /\ \E a \in 1..Len(painted), b \in 1..Len(painted) :
       Lt(painted[a].avgZ, painted[b].avgZ)
  /\ \E a \in 1..Len(painted), b \in 1..Len(painted) :
       a # b /\ painted[a].avgZ = painted[b].avgZ

\* C11: the viewer looks along +z, so larger z is farther (projectPoint shrinks
\* a point as z grows for depth > 0); draw paints the farthest surviving
\* triangle first and the nearest last: no triangle is painted before one that
\* is farther (has the larger avgZ).
C11_BackToFront ==
  \A a \in 1..Len(painted), b \in 1..Len(painted) :
    a < b => ~Lt(painted[a].avgZ, painted[b].avgZ)

\* the candidate triangles of the last draw, in loop order
LastDrawCandidates ==
  drawCandidates(modes, canvas, lastOp.args[1], lastOp.args[2], lastOp.args[3],
                 lastOp.args[4], lastOp.args[5])

AllAmplitudesZero == \A k \in 1..Len(modes) : modes[k].amplitude = 0

\* C12: for the undeformed sphere drawn with rotation angles (0, 0) the
\* triangles the cull retains are exactly those of the hemisphere nearer to a
\* viewer looking along +z (the smaller z), and they are half of the candidate
\* triangles that are not degenerate.
C12_FacingHemisphere ==
  (/\ OpIs("draw") /\ AllAmplitudesZero
   /\ lastOp.args[1] = 0 /\ lastOp.args[2] = 0
   /\ lastOp.args[4] >= 1 /\ lastOp.args[5] >= 1) =>
     /\ \A n \in 1..Len(painted) : Lt(painted[n].avgZ, Fin(0))
     /\ \A cands \in {LastDrawCandidates} :
          /\ \A n \in 1..Len(cands) :
               (~IsNaN(cands[n].normal.z) /\ Lt(cands[n].avgZ, Fin(0)))
                 => PaintedCount(cands[n].src) = 1
          /\ 2 * Len(painted) =
               Cardinality({n \in 1..Len(cands) : ~IsNaN(cands[n].normal.z)})

\* normal . lightDir of painted triangle n of the last draw, in thousandths
PaintedDot(n) ==
  dotProduct(LastDrawNormal(painted[n].src[1], painted[n].src[2], painted[n].src[3]),
             lightDir).v

\* max(0.1, dot), in thousandths
Intensity(dot) == IF dot > 100 THEN dot ELSE 100

\* C13: the colour of every painted triangle is red = floor(40 * intensity),
\* green = floor(120 * intensity), blue = floor(120 + 135 * intensity) with
\* intensity = max(0.1, normal . lightDir); dot = 1 gives (40, 120, 255), any
\* dot <= 0.1 gives (4, 12, 133), and red is in 4..40, green in 12..120, blue in
\* 133..255.
C13_Lighting ==
  OpIs("draw") =>
   \A mesh \in {createDeformedSphere(modes, lastOp.args[4], lastOp.args[5])} :
    \A n \in 1..Len(painted) :
      \A dot \in {dotProduct(MeshNormal(mesh, painted[n].src[1], painted[n].src[2],
                                        painted[n].src[3]), lightDir).v} :
        /\ painted[n].color =
             << Fin((40 * Intensity(dot)) \div 1000),
                Fin((120 * Intensity(dot)) \div 1000),
                Fin((120000 + 135 * Intensity(dot)) \div 1000) >>
        /\ dot = 1000 => painted[n].color = <<Fin(40), Fin(120), Fin(255)>>
        /\ dot <= 100 => painted[n].color = <<Fin(4), Fin(12), Fin(133)>>
        /\ painted[n].color[1].v \in 4..40
        /\ painted[n].color[2].v \in 12..120
        /\ painted[n].color[3].v \in 133..255

C13_Witness ==
  /\ OpIs("draw")
  /\ \E n \in 1..Len(painted) :
       PaintedDot(n) = 1000 /\ painted[n].color = <<Fin(40), Fin(120), Fin(255)>>

\* the grid the last draw generated
LastDrawMesh == createDeformedSphere(modes, lastOp.args[4], lastOp.args[5])

\* C14: with numPointsTheta >= 1 and numPointsPhi >= 1 the mesh has exactly
\* numPointsPhi + 1 rows of exactly numPointsTheta + 1 points, whatever the
\* modes and amplitudes, and draw examines numPointsPhi * numPointsTheta quads,
\* two candidate triangles each.
C14_MeshGrid ==
  (OpIs("draw") /\ lastOp.args[4] >= 1 /\ lastOp.args[5] >= 1) =>
    /\ \A mesh \in {LastDrawMesh} :
         /\ Len(mesh) = lastOp.args[5] + 1
         /\ \A j \in 1..Len(mesh) : Len(mesh[j]) = lastOp.args[4] + 1
    /\ \A cands \in {LastDrawCandidates} :
         /\ Len(cands) = 2 * lastOp.args[5] * lastOp.args[4]
         /\ {cands[n].src : n \in 1..Len(cands)} =
              (0..(lastOp.args[5] - 1)) \X (0..(lastOp.args[4] - 1)) \X {1, 2}

C14_Witness ==
  /\ OpIs("draw") /\ lastOp.args[4] = 4 /\ lastOp.args[5] = 2
  /\ ~AllAmplitudesZero
  /\ Len(LastDrawMesh) = 3 /\ Len(LastDrawMesh[3]) = 5
  /\ Len(LastDrawCandidates) = 16

\* the angles of grid point (j, i) of the last draw, in quarter turns
LastDrawPhi(j) == Div(Mul(Fin(j), Fin(2)), Fin(lastOp.args[5]))
LastDrawTheta(i) == Div(Mul(Fin(i), Fin(4)), Fin(lastOp.args[4]))

SquaredRadius(p) == p.x.v * p.x.v + p.y.v * p.y.v + p.z.v * p.z.v

\* C15: when every mode has amplitude 0, every mode contributes 0 at every
\* sample, every mesh point is baseRadius times its unit base point and lies at
\* radius baseRadius from the origin; with baseRadius = 200, numPointsTheta = 4,
\* numPointsPhi = 2 the mesh is 3 rows of 5 points with x^2 + y^2 + z^2 = 200^2.
C15_SphereInvariant ==
  (/\ OpIs("draw") /\ AllAmplitudesZero
   /\ lastOp.args[4] >= 1 /\ lastOp.args[5] >= 1) =>
    \A mesh \in {LastDrawMesh} :
      /\ \A j \in 0..lastOp.args[5], i \in 0..lastOp.args[4] :
           \A basePoint \in {basePointOf(LastDrawTheta(i), LastDrawPhi(j))} :
             /\ \A k \in 1..Len(modes) :
                  applyDeformation(modes[k], LastDrawTheta(i), LastDrawPhi(j),
                                   basePoint) = Fin(0)
             /\ mesh[j + 1][i + 1] = [x |-> Fin(baseRadius * basePoint.x.v),
                                      y |-> Fin(baseRadius * basePoint.y.v),
                                      z |-> Fin(baseRadius * basePoint.z.v)]
             /\ SquaredRadius(basePoint) = 1
             /\ SquaredRadius(mesh[j + 1][i + 1]) = baseRadius * baseRadius
      /\ (lastOp.args[4] = 4 /\ lastOp.args[5] = 2) =>
           /\ Len(mesh) = 3
           /\ \A j \in 1..3 : Len(mesh[j]) = 5
           /\ \A j \in 1..3, i \in 1..5 : SquaredRadius(mesh[j][i]) = 200 * 200

C15_Witness ==
  /\ OpIs("draw") /\ AllAmplitudesZero
  /\ modes = setupDefaultModes
  /\ lastOp.args[4] = 4 /\ lastOp.args[5] = 2
  /\ LastDrawMesh[1][1] = Vec(<<0, 0, 200>>)
  /\ LastDrawMesh[2][2] = Vec(<<0, 200, 0>>)
  /\ LastDrawMesh[3][5] = Vec(<<0, 0, -200>>)

\* C16: the triangles a draw paints (points, colour, order) are determined by
\* its arguments, the mode amplitudes, the light direction and the surface size
\* at the time of the call, whatever was drawn or changed before, and draw
\* changes neither the modes nor the light direction.
C16_DrawNoMemory ==
  [][Stepped("draw") =>
       /\ \A d \in {lastOp'.args}, ms \in {modes'}, cv \in {canvas'},
             light \in {lightDir'} :
            painted' = drawList(ms, cv, light, d[1], d[2], d[3], d[4], d[5])
       /\ modes' = modes
       /\ nextId' = nextId
       /\ lightDir' = lightDir
       /\ canvas' = canvas]_vars

C16_Witness ==
  /\ OpIs("draw") /\ frame >= 2
  /\ Len(painted) > 0
  /\ Len(painted) < 2 * lastOp.args[4] * lastOp.args[5]

\* C17: frames never overlap and never interleave with control events: one run
\* of animate at most is due at any time, a frame is complete (painted, counted)
\* in the step that requests the next one, every triangle of a frame comes from
\* the mesh of one snapshot of the modes, which the frame does not change, and
\* a control event neither paints nor advances the frame.
C17_FramesInOrder ==
  [][/\ pending <= 1 /\ pending' <= 1
     /\ Stepped("draw") =>
          /\ pending = 1 /\ pending' = 1
          /\ frame' = frame + 1
          /\ modes' = modes /\ modeSliders' = modeSliders
          /\ \A d \in {lastOp'.args}, ms \in {modes'}, cv \in {canvas'} :
              \A cands \in {drawCandidates(ms, cv, d[1], d[2], d[3], d[4], d[5])} :
               \A n \in 1..Len(painted') :
                 \E c \in 1..Len(cands) :
                   /\ cands[c].src = painted'[n].src
                   /\ cands[c].points = painted'[n].points
                   /\ cands[c].avgZ = painted'[n].avgZ
     /\ ~Stepped("draw") =>
          /\ frame' = frame
          /\ pending' = pending
          /\ painted' = painted]_vars

C17_Witness ==
  /\ OpIs("draw") /\ frame = 2 /\ steps = 2
  /\ pending = 1
  /\ painted # << >>

\* the three grid points of triangle src = <<j, i, k>> in a mesh, in the order
\* draw lists them
TriangleVertices(mesh, src) ==
  IF src[3] = 1
  THEN << mesh[src[1] + 1][src[2] + 1], mesh[src[1] + 1][src[2] + 2],
          mesh[src[1] + 2][src[2] + 1] >>
  ELSE << mesh[src[1] + 1][src[2] + 2], mesh[src[1] + 2][src[2] + 2],
          mesh[src[1] + 2][src[2] + 1] >>

\* C18: the mesh is never cached: every draw regenerates the grid from the
\* modes as they are when the frame starts, so the first draw after a
\* setAmplitude, applyPreset, reset, addMode or removeMode already shows the
\* new mode state: every painted triangle has the rotated, projected vertices
\* and the avgZ of the grid generated from the current modes.
C18_MeshNotCached ==
  [][Stepped("draw") =>
       \A mesh \in {createDeformedSphere(modes, lastOp'.args[4], lastOp'.args[5])} :
         \A n \in 1..Len(painted') :
           \A v \in {TriangleVertices(mesh, painted'[n].src)} :
             \A r \in {[m \in 1..3 |->
                          rotatePoint(v[m], lastOp'.args[1], lastOp'.args[2])]} :
               /\ painted'[n].avgZ = avgZOf(r[1], r[2], r[3])
               /\ painted'[n].points =
                    [m \in 1..3 |-> projectPoint(canvas, r[m], lastOp'.args[3])]]_vars

C18_Witness ==
  /\ OpIs("draw") /\ frame = 1 /\ steps = 2
  /\ ~AllAmplitudesZero
  /\ painted # drawList(setupDefaultModes, canvas, lightDir, lastOp.args[1],
                        lastOp.args[2], lastOp.args[3], lastOp.args[4],
                        lastOp.args[5])

\* C19: the reset event sets the amplitude of every mode of the deformer to
\* 0, modes without a slider and modes with a non-zero defaultAmplitude
\* included, and changes neither the mode count nor the order (nor any other
\* field of a mode).
C19_ResetAll ==
  [][Stepped("resetDeformationUI") =>
       /\ Len(modes') = Len(modes)
       /\ Ids(modes') = Ids(modes)
       /\ \A k \in 1..Len(modes) :
            /\ modes'[k].amplitude = 0
            /\ modes'[k] = [modes[k] EXCEPT !.amplitude = 0]]_vars

C19_Witness ==
  /\ OpIs("resetDeformationUI")
  /\ Len(modes) > Len(modeSliders)
  /\ modes[Len(modes)].defaultAmplitude # 0
  /\ AllAmplitudesZero

\* floor of the length of the vector v = <<x, y, z>>
FloorLength(v) == ISqrtIn(v[1] * v[1] + v[2] * v[2] + v[3] * v[3], 0, 46340)

\* C20: setLightDirection(x, y, z) replaces the light vector by (x, y, z) scaled
\* to unit length and leaves the frame already painted as it is; every draw
\* after it colours all of its triangles with the vector current at that draw
\* and none with an earlier one.
C20_LightDirection ==
  [][/\ Stepped("setLightDirection") =>
          /\ \A len \in {FloorLength(lastOp'.args)} :
               /\ Abs(lightDir'.x.v * len - FP * lastOp'.args[1]) < len
               /\ Abs(lightDir'.y.v * len - FP * lastOp'.args[2]) < len
               /\ Abs(lightDir'.z.v * len - FP * lastOp'.args[3]) < len
          /\ SquaredRadius(lightDir') \in ((FP - 2) * (FP - 2))..((FP + 2) * (FP + 2))
          /\ painted' = painted
     /\ Stepped("draw") =>
          /\ lightDir' = lightDir
          /\ \A mesh \in {LastDrawMesh'} :
               \A n \in 1..Len(painted') :
                 \A v \in {TriangleVertices(mesh, painted'[n].src)} :
                   painted'[n].color =
                     calculateLighting(lightDir,
                       calculateNormal(
                         rotatePoint(v[1], lastOp'.args[1], lastOp'.args[2]),
                         rotatePoint(v[2], lastOp'.args[1], lastOp'.args[2]),
                         rotatePoint(v[3], lastOp'.args[1], lastOp'.args[2])))]_vars

C20_Witness ==
  /\ OpIs("draw") /\ steps = 2 /\ frame = 1
  /\ lightDir = Vec(<<-333, 666, -666>>)
  /\ \E n \in 1..Len(painted) :
       painted[n].color # <<Fin(4), Fin(12), Fin(133)>>
  /\ painted # drawList(modes, canvas,
                        normalizeLightDirection(Vec(<<500, -500, 700>>)),
                        lastOp.args[1], lastOp.args[2], lastOp.args[3],
                        lastOp.args[4], lastOp.args[5])

\* the modes after an input of value v on slider i when the modes are ms, and
\* what the listener's setAmplitude call returns
AfterInput(ms, i, v) == setAmplitudeModes(ms, listenerIndex(ms, i), v)
InputRet(ms, i, v) == setAmplitudeRet(ms, listenerIndex(ms, i), v)

\* the index of the last slider
HighestSlider == Len(modeSliders) - 1

\* C21 as stated: after a successful removeMode(k) with k <= i an input on
\* slider i leaves the mode the slider was created for alone and changes the
\* mode formerly at index i + 1, and an input on the slider with the highest
\* index changes no mode at all, setAmplitude returning false.
C21_HighestSliderDead ==
  [][(Stepped("removeMode") /\ lastOp'.ok) =>
       \A i \in lastOp'.args[1]..HighestSlider, v \in SliderValues :
         \A after \in {AfterInput(modes', i, v)} :
           /\ \A n \in 1..Len(after) :
                after[n].id = setupDefaultModes[i + 1].id => after[n] = modes'[n]
           /\ IF i < HighestSlider
              THEN /\ InputRet(modes', i, v)
                   /\ after = [modes' EXCEPT
                                ![i + 1] = [modes[i + 2] EXCEPT !.amplitude = v]]
              ELSE /\ ~InputRet(modes', i, v)
                   /\ after = modes']_vars

\* C21: the listener of slider i keeps the index i it was created with: in
\* every state an input on slider i sets the amplitude of the mode now at index
\* i, or of none (setAmplitude returns false) when no mode is at index i, and
\* no step adds, drops or re-binds a slider.  So after a successful
\* removeMode(k) with k <= i an input on slider i leaves the mode the slider was
\* created for alone and changes the mode formerly at index i + 1 when there was
\* one; when there was none it changes no mode, which is what the slider with
\* the highest index does provided the deformer held no more modes than there
\* are sliders before the removal (no mode had been added).
C21_StaleIndices ==
  [][/\ Len(modeSliders') = Len(modeSliders)
     /\ Stepped("sliderInput") =>
          \A i \in {lastOp'.args[1]} :
            IF i < Len(modes)
            THEN /\ lastOp'.ok
                 /\ modes' = [modes EXCEPT ![i + 1].amplitude = lastOp'.args[2]]
            ELSE /\ ~lastOp'.ok
                 /\ modes' = modes
     /\ (Stepped("removeMode") /\ lastOp'.ok) =>
          \A i \in lastOp'.args[1]..HighestSlider, v \in SliderValues :
            \A after \in {AfterInput(modes', i, v)} :
              /\ \A n \in 1..Len(after) :
                   after[n].id = setupDefaultModes[i + 1].id => after[n] = modes'[n]
              /\ IF i + 2 <= Len(modes)
                 THEN /\ InputRet(modes', i, v)
                      /\ after = [modes' EXCEPT
                                   ![i + 1] = [modes[i + 2] EXCEPT !.amplitude = v]]
                 ELSE /\ ~InputRet(modes', i, v)
                      /\ after = modes'
              /\ (i = HighestSlider /\ Len(modes) <= Len(modeSliders)) =>
                   /\ ~InputRet(modes', i, v)
                   /\ after = modes']_vars

C21_Witness ==
  /\ OpIs("sliderInput") /\ lastOp.ok
  /\ Len(modes) < Len(modeSliders)
  /\ modes[lastOp.args[1] + 1].id # setupDefaultModes[lastOp.args[1] + 1].id
  /\ modes[lastOp.args[1] + 1].amplitude = lastOp.args[2]
  /\ modeSliders[lastOp.args[1] + 1] = lastOp.args[2]

\* every mode has a slider and the slider shows the mode's amplitude
UIConsistent ==
  /\ Len(modeSliders) = Len(modes)
  /\ \A n \in 1..Len(modes) : modeSliders[n] = modes[n].amplitude

\* a step of the user interface or of the animation: not a direct call of
\* addMode, removeMode, setAmplitude, applyPreset or reset
UIStep ==
  /\ steps' = steps + 1
  /\ lastOp'.op \in {"sliderInput", "presetChange", "resetDeformationUI",
                     "draw", "resizeCanvas", "setLightDirection"}

\* C22: after setupDeformationUI on the default deformer every slider i shows
\* modes[i].amplitude, and slider inputs, selections of a built-in preset and
\* clicks on the reset button (with frames drawn in between) keep it so: with
\* no addMode and no removeMode the value slider i shows equals
\* modes[i].amplitude for every mode index i.
C22_UIConsistency ==
  /\ UIConsistent
  /\ [][(UIConsistent /\ UIStep) => UIConsistent']_vars

C22_Witness ==
  /\ OpIs("sliderInput") /\ steps = 2
  /\ UIConsistent
  /\ modes = setAmplitudeModes(
               applyPresetModes(setupDefaultModes, presetConfigurations.star), 6, 20)
  /\ modeSliders = <<30, 0, 0, 0, 0, 0, 20>>

\* the cross product of the two edge vectors of candidate triangle src of the
\* last draw, from its rotated vertices
LastDrawCross(mesh, src) ==
  Only({ crossProduct(rotatePoint(v[1], lastOp.args[1], lastOp.args[2]),
                      rotatePoint(v[2], lastOp.args[1], lastOp.args[2]),
                      rotatePoint(v[3], lastOp.args[1], lastOp.args[2]))
         : v \in {TriangleVertices(mesh, src)} })

ZeroVector(c) == c.x = Fin(0) /\ c.y = Fin(0) /\ c.z = Fin(0)

\* C23: a candidate triangle whose two edge vectors have a zero cross product
\* (two of its vertices coincide, as on the pole rows) is never in the draw
\* list: every component of its normalized normal is 0 / 0 = NaN, the test
\* normal.z < 0 is false for it, and this is so in every frame, whatever the
\* rotation and the depth.
C23_ZeroAreaCulled ==
  OpIs("draw") =>
    \A mesh \in {LastDrawMesh} :
      \A j \in 0..(lastOp.args[5] - 1), i \in 0..(lastOp.args[4] - 1), k \in 1..2 :
        \A c \in {LastDrawCross(mesh, <<j, i, k>>)} :
          ZeroVector(c) =>
            /\ \A normal \in {unitVector(c)} :
                 /\ IsNaN(normal.x) /\ IsNaN(normal.y) /\ IsNaN(normal.z)
                 /\ ~facing(normal)
            /\ PaintedCount(<<j, i, k>>) = 0

C23_Witness ==
  /\ OpIs("draw") /\ lastOp.args[1] # 0 /\ lastOp.args[3] # 0
  /\ Len(painted) > 0
  /\ \E j \in 0..(lastOp.args[5] - 1), i \in 0..(lastOp.args[4] - 1), k \in 1..2 :
       /\ ZeroVector(LastDrawCross(LastDrawMesh, <<j, i, k>>))
       /\ TriangleVertices(LastDrawMesh, <<j, i, k>>)[1]
            = TriangleVertices(LastDrawMesh, <<j, i, k>>)[2]
       /\ PaintedCount(<<j, i, k>>) = 0

====
